---- MODULE Spec2Model ----
(***************************************************************************)
(* Frigate process orchestration and detection dispatch.                   *)
(*                                                                         *)
(* These state machines share this module:                                 *)
(*   Spec        the supervisor FrigateApp (frigate/app.py): start(), the  *)
(*               workers it spawns, the watchdog, and stop();              *)
(*   SpecRegistry  start_detectors and the release loop of stop() over a   *)
(*               shared-memory namespace that may hold segments already;   *)
(*   SpecShm     FrigateApp.check_shm as a function of the shared-memory   *)
(*               capacity and the camera set;                              *)
(*   SpecDetect  ONNXDetector.detect_raw (detectors/plugins/onnx.py);      *)
(*   SpecDispatch  the exchange of detection jobs between the camera       *)
(*               processing workers and the detector workers;              *)
(*   SpecStore   Spec with the workers that write events and review        *)
(*               segments to the store;                                    *)
(*   SpecHang    Spec with threads that never observe stop_event;          *)
(*   SpecSignal  Spec with a signal delivered while stop() runs;           *)
(*   SpecStartFail  Spec with a startup call after start_detectors that    *)
(*               raises;                                                   *)
(*   SpecLive    Spec under fair scheduling.                               *)
(***************************************************************************)
EXTENDS Integers, Sequences, FiniteSets, TLC

(***************************************************************************)
(* Bounds of the model.                                                    *)
(***************************************************************************)
MaxCameras == 2
MaxDetectors == 1
MaxSegCameras == 2
MaxSegDetectors == 2
MaxStale == 2

(***************************************************************************)
(* Configuration universe (FrigateConfig is consumed as an immutable       *)
(* snapshot).  Camera names are the keys of config.cameras, in file order. *)
(***************************************************************************)
CameraOrder == <<"cam", "yard", "out-cam">>
CameraNames == {CameraOrder[i] : i \in 1..Len(CameraOrder)}
DetectorOrder == <<"det1", "det2", "det3">>
DetectorNames == {DetectorOrder[i] : i \in 1..Len(DetectorOrder)}

\* config.detectors[d].model height and width
ModelDim(d) ==
    CASE d = "det1" -> [height |-> 320, width |-> 320]
      [] d = "det2" -> [height |-> 640, width |-> 480]
      [] OTHER      -> [height |-> 416, width |-> 416]

\* the first n cameras of CameraOrder
FirstCameras(n) == {CameraOrder[i] : i \in 1..n}

\* configurations the supervisor is run with
Configs ==
    { c \in [cameras : SUBSET CameraNames, enabled : SUBSET CameraNames,
             audio : BOOLEAN, semantic_search : BOOLEAN,
             ndetectors : 1..MaxDetectors] :
        /\ \E n \in 1..MaxCameras :
              n <= Len(CameraOrder) /\ c.cameras = FirstCameras(n)
        /\ c.enabled \subseteq c.cameras
        /\ c.ndetectors <= Len(DetectorOrder)
        /\ (c.audio => c.enabled # {}) }

\* configurations the segment registry is run with: any camera names
SegConfigs ==
    { c \in [cameras : SUBSET CameraNames, enabled : SUBSET CameraNames,
             audio : {FALSE}, semantic_search : {FALSE},
             ndetectors : 1..MaxSegDetectors] :
        /\ c.cameras # {}
        /\ Cardinality(c.cameras) <= MaxSegCameras
        /\ c.enabled = c.cameras
        /\ c.ndetectors <= Len(DetectorOrder) }

VARIABLES
    config,               \* the validated configuration snapshot
    pc,                   \* the supervisor's position in start() / stop()
    loop_i,               \* index of the running for/while loop of stop()
    error,                \* the exception that ended the supervisor, or "none"
    stop_event,           \* self.stop_event
    stop_log,             \* history: the steps of stop() executed so far
    procs,                \* singleton worker processes of the supervisor
    camera_metrics,       \* per camera: frame_queue, capture_process, process
    detectors,            \* self.detectors: detector name -> worker process
    threads,              \* worker threads of the supervisor process
    wd_pc,                \* the watchdog's position in its polling loop
    queues,               \* the inter-process queues
    comps,                \* components with a stop(): db, dispatcher, ...
    stats_saved,          \* embeddings.save_stats() was called
    shm_fs,               \* the OS shared-memory namespace: name -> segment
    detection_shms,       \* self.detection_shms, the segment registry
    detection_out_events, \* self.detection_out_events (keys)
    next_id,              \* the next fresh segment identity
    shm_frame_count,      \* self.shm_frame_count
    plan,                 \* check_shm on its own: input and result
    det,                  \* detect_raw on its own: input, position, output
    outcome,              \* how start() ended early: exit status, messages
    open_records,         \* store records that have no end time
    dsp,                  \* detection dispatch: queue, flags, job holders
    assigned              \* the attributes of self that have been assigned

ctl == <<pc, loop_i, error, assigned>>
workers == <<procs, camera_metrics, detectors, threads, wd_pc>>
channels == <<queues, comps, stats_saved>>
segs == <<shm_fs, detection_shms, detection_out_events, next_id>>
pure == <<plan, det>>
aux == <<outcome, open_records, dsp>>
vars == <<config, ctl, stop_event, stop_log, workers, channels, segs,
          shm_frame_count, pure, aux>>

(***************************************************************************)
(* Names of the supervisor's workers and channels.                         *)
(***************************************************************************)
ProcNames == {"log_process", "recording_process", "review_segment_process",
              "embedding_process", "output_processor", "audio_process"}
ThreadNames == {"ptz_autotracker_thread", "detected_frames_processor",
                "storage_maintainer", "stats_emitter", "timeline_processor",
                "event_processor", "event_cleanup", "record_cleanup",
                "frigate_watchdog"}
QueueNames == {"detection_queue", "detected_frames_queue", "timeline_queue"}
CompNames == {"db", "dispatcher", "external_event_processor",
              "onvif_controller", "inter_process_communicator",
              "inter_config_updater", "inter_zmq_proxy", "embeddings",
              "flask_app"}

\* the cameras of the configuration, in the order config.cameras iterates
CamSeq(cfg) == SelectSeq(CameraOrder, LAMBDA c : c \in cfg.cameras)
\* the detectors of the configuration, in the order config.detectors iterates
DetSeq(cfg) == SubSeq(DetectorOrder, 1, cfg.ndetectors)
ConfigDetectors(cfg) == {DetectorOrder[i] : i \in 1..cfg.ndetectors}

(***************************************************************************)
(* Shared-memory segments.  A segment is an identity and a size; a name    *)
(* bound to NoSeg does not exist.  A handle remembers the segment it maps. *)
(***************************************************************************)
OutName(name) == "out-" \o name
SegNames == CameraNames \cup {OutName(c) : c \in CameraNames}
NoSeg == [id |-> 0, size |-> 0]
StaleSize == 1000
OutSize == 20 * 6 * 4

RECURSIVE SeqMax(_)
SeqMax(s) ==
    IF Len(s) = 1 THEN s[1]
    ELSE LET m == SeqMax(Tail(s)) IN IF s[1] > m THEN s[1] ELSE m

\* max([det.model.height * det.model.width * 3 for det in config.detectors])
largest_frame(cfg) ==
    SeqMax([i \in 1..cfg.ndetectors |->
              ModelDim(DetectorOrder[i]).height
                * ModelDim(DetectorOrder[i]).width * 3])

\* SharedMemory(name=name): attach to the segment that exists under the name
AttachBroken(st, name) ==
    [fs |-> [st.fs EXCEPT ![name] = [id |-> st.next_id, size |-> @.size]],
     handle |-> [name |-> name, id |-> st.next_id, size |-> st.fs[name].size,
                 attached |-> TRUE],
     next_id |-> st.next_id + 1]
Attach(st, name) ==
    [fs |-> st.fs,
     handle |-> [name |-> name, id |-> st.fs[name].id,
                 size |-> st.fs[name].size, attached |-> TRUE],
     next_id |-> st.next_id]

\* try: SharedMemory(name, create=True, size)  except FileExistsError: attach
Acquire(st, name, size) ==
    IF st.fs[name] = NoSeg
    THEN [fs |-> [st.fs EXCEPT ![name] = [id |-> st.next_id, size |-> size]],
          handle |-> [name |-> name, id |-> st.next_id, size |-> size,
                      attached |-> FALSE],
          next_id |-> st.next_id + 1]
    ELSE Attach(st, name)

\* the camera loop of start_detectors: two segments per configured camera
RECURSIVE AcquireAll(_, _, _)
AcquireAll(cams, st, cfg) ==
    IF cams = <<>> THEN st
    ELSE LET a == Acquire([fs |-> st.fs, next_id |-> st.next_id],
                          Head(cams), largest_frame(cfg))
             b == Acquire([fs |-> a.fs, next_id |-> a.next_id],
                          OutName(Head(cams)), OutSize)
         IN AcquireAll(Tail(cams),
                       [fs |-> b.fs, next_id |-> b.next_id,
                        shms |-> Append(Append(st.shms, a.handle), b.handle)],
                       cfg)

(***************************************************************************)
(* check_shm: the number of raw frames each camera may keep in shared      *)
(* memory.  Megabyte quantities are the code's one-decimal values, held    *)
(* here as integers in tenths of a megabyte.                               *)
(***************************************************************************)
MiB == 1048576
FrameCap == 50
WarnBelow == 10

\* round(n / d) to the nearest integer, ties to the even one (n >= 0, d > 0)
RoundHalfEven(n, d) ==
    LET q == n \div d
        r == n % d
    IN  IF 2 * r < d THEN q
        ELSE IF 2 * r > d THEN q + 1
        ELSE IF q % 2 = 0 THEN q ELSE q + 1

\* int(a / b): Python truncates the quotient toward zero (b > 0)
IntDiv(a, b) == IF a >= 0 THEN a \div b ELSE -((-a) \div b)

\* round(shutil.disk_usage("/dev/shm").total / pow(2, 20), 1), in tenths
total_shm(total_bytes) ==
    (total_bytes \div MiB) * 10 + RoundHalfEven((total_bytes % MiB) * 10, MiB)

\* min_req_shm = 40 + 10, plus 8 with birdseye restream, in tenths
min_req_shm(restream) == IF restream THEN (40 + 10 + 8) * 10 ELSE (40 + 10) * 10

\* round((width * height * 1.5 + 270480) / 1048576, 1), in tenths
frame_size(width, height) ==
    RoundHalfEven(10 * (3 * width * height + 2 * 270480), 2 * MiB)

\* the sum over the cameras of the frame size of those that are enabled
CountsCamera(camera) == camera.enabled
RECURSIVE cam_total_frame_size(_)
cam_total_frame_size(cams) ==
    IF cams = <<>> THEN 0
    ELSE (IF CountsCamera(Head(cams))
          THEN frame_size(Head(cams).width, Head(cams).height) ELSE 0)
         + cam_total_frame_size(Tail(cams))

\* min(50, int(available_shm / cam_total_frame_size)); the division raises
\* ZeroDivisionError when no camera is enabled
check_shm(total_bytes, restream, cams) ==
    LET available_shm == total_shm(total_bytes) - min_req_shm(restream)
        size == cam_total_frame_size(cams)
    IN  IF size = 0
        THEN [raised |-> TRUE, frames |-> 0, warned |-> FALSE]
        ELSE LET n == IntDiv(available_shm, size)
                 frames == IF n < FrameCap THEN n ELSE FrameCap
             IN [raised |-> FALSE, frames |-> frames,
                 warned |-> frames < WarnBelow]

(***************************************************************************)
(* The supervisor's program: the calls of start() in order, the web server *)
(* run, and the statements of stop() in order.                             *)
(***************************************************************************)
\* the order with the capture workers started before check_shm
StartOrderCaptureEarly ==
    <<"init_logger", "ensure_dirs", "init_config", "set_environment_vars",
      "set_log_levels", "init_queues", "init_database", "init_onvif",
      "init_recording_manager", "init_review_segment_manager",
      "init_embeddings_manager", "init_go2rtc", "bind_database",
      "check_db_data_migrations", "init_inter_process_communicator",
      "init_dispatcher", "start_detectors", "start_video_output_processor",
      "start_ptz_autotracker", "init_historical_regions",
      "start_detected_frames_processor", "start_camera_processors",
      "start_camera_capture_processes", "check_shm", "start_audio_processors",
      "start_storage_maintainer", "init_external_event_processor",
      "start_stats_emitter", "init_web_server", "start_timeline_processor",
      "start_event_processor", "start_event_cleanup", "start_record_cleanup",
      "start_watchdog", "init_auth">>
\* the order with the web server built before the stats emitter
StartOrderWebEarly ==
    <<"init_logger", "ensure_dirs", "init_config", "set_environment_vars",
      "set_log_levels", "init_queues", "init_database", "init_onvif",
      "init_recording_manager", "init_review_segment_manager",
      "init_embeddings_manager", "init_go2rtc", "bind_database",
      "check_db_data_migrations", "init_inter_process_communicator",
      "init_dispatcher", "start_detectors", "start_video_output_processor",
      "start_ptz_autotracker", "init_historical_regions",
      "start_detected_frames_processor", "start_camera_processors",
      "check_shm", "start_camera_capture_processes", "start_audio_processors",
      "start_storage_maintainer", "init_external_event_processor",
      "init_web_server", "start_stats_emitter", "start_timeline_processor",
      "start_event_processor", "start_event_cleanup", "start_record_cleanup",
      "start_watchdog", "init_auth">>
StartOrderBindEarly ==
    <<"init_logger", "ensure_dirs", "init_config", "set_environment_vars",
      "set_log_levels", "init_queues", "init_database", "init_onvif",
      "init_recording_manager", "init_review_segment_manager",
      "bind_database", "init_embeddings_manager", "init_go2rtc",
      "check_db_data_migrations", "init_inter_process_communicator",
      "init_dispatcher", "start_detectors", "start_video_output_processor",
      "start_ptz_autotracker", "init_historical_regions",
      "start_detected_frames_processor", "start_camera_processors",
      "check_shm", "start_camera_capture_processes",
      "start_audio_processors", "start_storage_maintainer",
      "init_external_event_processor", "start_stats_emitter",
      "init_web_server", "start_timeline_processor", "start_event_processor",
      "start_event_cleanup", "start_record_cleanup", "start_watchdog",
      "init_auth">>
StartOrder ==
    <<"init_logger", "ensure_dirs", "init_config", "set_environment_vars",
      "set_log_levels", "init_queues", "init_database", "init_onvif",
      "init_recording_manager", "init_review_segment_manager",
      "init_embeddings_manager", "init_go2rtc", "bind_database",
      "check_db_data_migrations", "init_inter_process_communicator",
      "init_dispatcher", "start_detectors", "start_video_output_processor",
      "start_ptz_autotracker", "init_historical_regions",
      "start_detected_frames_processor", "start_camera_processors",
      "check_shm", "start_camera_capture_processes",
      "start_audio_processors", "start_storage_maintainer",
      "init_external_event_processor", "start_stats_emitter",
      "init_web_server", "start_timeline_processor", "start_event_processor",
      "start_event_cleanup", "start_record_cleanup", "start_watchdog",
      "init_auth">>

StopOrderDbFirst ==
    <<"set_stop_event", "finalize_records", "stop_audio", "stop_capture",
      "stop_camera_processors", "stop_detectors", "close_detection_queue",
      "join_detected_frames_processor", "join_timeline", "stop_output_record_review",
      "stop_external_dispatcher", "join_ptz_autotracker", "stop_db",
      "join_cleanup_stats_watchdog", "save_embeddings_stats",
      "stop_communicators", "release_shms", "stop_log_process", "os_exit">>
StopOrder ==
    <<"set_stop_event", "finalize_records", "stop_audio", "stop_capture",
      "stop_camera_processors", "stop_detectors", "close_detection_queue",
      "join_detected_frames_processor", "join_timeline", "stop_output_record_review",
      "stop_external_dispatcher", "join_ptz_autotracker", "join_cleanup_stats_watchdog",
      "stop_db", "save_embeddings_stats", "stop_communicators",
      "release_shms", "stop_log_process", "os_exit">>

Program == StartOrder \o <<"flask_run">> \o StopOrder \o <<"exited">>

IndexOf(seq, x) == CHOOSE i \in 1..Len(seq) : seq[i] = x
After(label) == Program[IndexOf(Program, label) + 1]

(***************************************************************************)
(* The attributes of the FrigateApp object.  An entry of a dict attribute  *)
(* is named attribute[key].                                                *)
(***************************************************************************)
Item(attr, key) == attr \o "[" \o key \o "]"

\* what FrigateApp.__init__ assigns
Constructed ==
    {"stop_event", "detection_queue", "detectors", "detection_out_events",
     "detection_shms", "log_queue", "plus_api", "camera_metrics",
     "ptz_metrics", "processes", "region_grids"}

\* the attributes and dict entries a step of start() assigns
Writes(label, cfg) ==
    CASE label = "init_logger" -> {"log_process"}
      [] label = "init_config" -> {"config"}
      [] label = "init_queues" -> {"detected_frames_queue", "timeline_queue"}
      [] label = "init_onvif" -> {"onvif_controller"}
      [] label = "init_recording_manager" -> {"recording_process"}
      [] label = "init_review_segment_manager" -> {"review_segment_process"}
      [] label = "init_embeddings_manager" ->
            {"embeddings"} \cup (IF cfg.semantic_search
                                 THEN {"embedding_process"} ELSE {})
      [] label = "bind_database" -> {"db"}
      [] label = "init_inter_process_communicator" ->
            {"inter_process_communicator", "inter_config_updater",
             "inter_zmq_proxy"}
      [] label = "init_dispatcher" -> {"dispatcher"}
      [] label = "start_detectors" ->
            {Item("detection_out_events", c) : c \in cfg.cameras}
      [] label = "start_video_output_processor" -> {"output_processor"}
      [] label = "start_ptz_autotracker" -> {"ptz_autotracker_thread"}
      [] label = "init_historical_regions" ->
            {Item("region_grids", c) : c \in cfg.cameras}
      [] label = "start_detected_frames_processor" ->
            {"detected_frames_processor"}
      [] label = "check_shm" -> {"shm_frame_count"}
      [] label = "start_audio_processors" -> {"audio_process"}
      [] label = "start_storage_maintainer" -> {"storage_maintainer"}
      [] label = "init_external_event_processor" ->
            {"external_event_processor"}
      [] label = "start_stats_emitter" -> {"stats_emitter"}
      [] label = "init_web_server" -> {"flask_app"}
      [] label = "start_timeline_processor" -> {"timeline_processor"}
      [] label = "start_event_processor" -> {"event_processor"}
      [] label = "start_event_cleanup" -> {"event_cleanup"}
      [] label = "start_record_cleanup" -> {"record_cleanup"}
      [] label = "start_watchdog" -> {"frigate_watchdog"}
      [] OTHER -> {}

\* the attributes and dict entries a step of start() or stop() reads
Reads(label, cfg) ==
    CASE label = "init_logger" -> {"log_queue", "processes"}
      [] label = "init_config" -> {"camera_metrics", "ptz_metrics", "plus_api"}
      [] label \in {"set_environment_vars", "set_log_levels", "init_queues",
                    "init_database", "check_db_data_migrations",
                    "init_external_event_processor",
                    "start_video_output_processor", "init_auth"} ->
            {"config"}
      [] label = "init_go2rtc" -> {"processes"}
      [] label \in {"init_recording_manager", "init_review_segment_manager",
                    "init_embeddings_manager"} -> {"config", "processes"}
      [] label = "bind_database" -> {"config"}
      [] label = "init_onvif" -> {"config", "ptz_metrics"}
      [] label = "init_dispatcher" ->
            {"config", "onvif_controller", "ptz_metrics",
             "inter_process_communicator", "inter_config_updater"}
      [] label = "start_detectors" ->
            {"config", "detection_out_events", "detection_shms",
             "detection_queue", "detectors"}
      [] label = "start_ptz_autotracker" ->
            {"config", "onvif_controller", "ptz_metrics", "dispatcher",
             "stop_event"}
      [] label = "init_historical_regions" -> {"config", "region_grids"}
      [] label = "start_detected_frames_processor" ->
            {"config", "dispatcher", "detected_frames_queue",
             "ptz_autotracker_thread", "stop_event"}
      [] label = "start_camera_processors" ->
            {"config"}
              \cup (IF cfg.enabled = {} THEN {}
                    ELSE {"detection_queue", "detected_frames_queue",
                          "camera_metrics", "ptz_metrics"})
              \cup {Item("detection_out_events", c) : c \in cfg.enabled}
              \cup {Item("region_grids", c) : c \in cfg.enabled}
      [] label = "check_shm" -> {"config"}
      [] label = "start_camera_capture_processes" ->
            {"config"}
              \cup (IF cfg.enabled = {} THEN {}
                    ELSE {"shm_frame_count", "camera_metrics"})
      [] label = "start_audio_processors" ->
            {"config"}
              \cup (IF cfg.audio THEN {"camera_metrics", "processes"} ELSE {})
      [] label = "start_storage_maintainer" -> {"config", "stop_event"}
      [] label = "start_stats_emitter" ->
            {"config", "camera_metrics", "detectors", "processes",
             "stop_event"}
      [] label = "init_web_server" ->
            {"config", "db", "embeddings", "detected_frames_processor",
             "storage_maintainer", "onvif_controller",
             "external_event_processor", "plus_api", "stats_emitter"}
      [] label = "start_timeline_processor" ->
            {"config", "timeline_queue", "stop_event"}
      [] label = "start_event_processor" ->
            {"config", "timeline_queue", "stop_event"}
      [] label \in {"start_event_cleanup", "start_record_cleanup"} ->
            {"config", "stop_event"}
      [] label = "start_watchdog" -> {"detectors", "stop_event"}
      [] label = "flask_run" -> {"flask_app"}
      [] label = "set_stop_event" -> {"stop_event"}
      [] label = "stop_audio" -> {"audio_process"}
      [] label \in {"stop_capture", "stop_camera_processors"} ->
            {"camera_metrics"}
      [] label = "stop_detectors" -> {"detectors"}
      [] label = "close_detection_queue" -> {"detection_queue"}
      [] label = "join_detected_frames_processor" ->
            {"detected_frames_processor", "detected_frames_queue"}
      [] label = "join_timeline" ->
            {"timeline_processor", "event_processor", "timeline_queue"}
      [] label = "stop_output_record_review" ->
            {"output_processor", "recording_process",
             "review_segment_process"}
      [] label = "stop_external_dispatcher" ->
            {"external_event_processor", "dispatcher"}
      [] label = "join_ptz_autotracker" -> {"ptz_autotracker_thread"}
      [] label = "join_cleanup_stats_watchdog" ->
            {"event_cleanup", "record_cleanup", "stats_emitter",
             "frigate_watchdog"}
      [] label = "stop_db" -> {"db"}
      [] label = "save_embeddings_stats" -> {"embeddings"}
      [] label = "stop_communicators" ->
            {"inter_process_communicator", "inter_config_updater",
             "inter_zmq_proxy"}
      [] label = "release_shms" -> {"detection_shms"}
      [] label = "stop_log_process" -> {"log_process"}
      [] OTHER -> {}

\* the supervisor executes the statement `label` and moves to the next one
Step(label) ==
    /\ pc = label
    /\ pc' = After(label)
    /\ assigned' = assigned \cup Writes(label, config)
    /\ UNCHANGED <<loop_i, error>>
\* an exception no handler catches ends the supervisor
Raise(label, exc) ==
    pc = label /\ pc' = "crashed" /\ error' = exc
      /\ UNCHANGED <<loop_i, assigned>>
\* stop() notes the step it is executing
Log(label) ==
    stop_log' = IF stop_log # <<>> /\ stop_log[Len(stop_log)] = label
                THEN stop_log ELSE Append(stop_log, label)

(***************************************************************************)
(* The initial state: FrigateApp.__init__ has run; the shared-memory       *)
(* namespace may hold segments a previous run left behind.                 *)
(***************************************************************************)
StaleSets == {S \in SUBSET SegNames : Cardinality(S) <= MaxStale}
\* identities below zero belong to segments of a previous run
StaleId(name) == 0 - Len(name)

PlanIdle == [total_bytes |-> 0, restream |-> FALSE, cameras |-> <<>>,
             done |-> FALSE, raised |-> FALSE, frames |-> 0, warned |-> FALSE]
OutcomeNone == [status |-> "none", failed_at |-> "none", errors |-> {},
                printed |-> {}]
\* a detector worker that holds no detection job
NoJob == [job |-> "none", phase |-> "wait_job"]
\* mp.Queue() is empty and every mp.Event() is clear when created
DspIdle == [queue |-> <<>>, flag |-> {},
            worker |-> [c \in CameraNames |-> "idle"],
            holder |-> [d \in DetectorNames |-> NoJob]]
DetIdle == [model_type |-> "yolonas", h |-> 1, w |-> 1, predictions |-> <<>>,
            at |-> "idle", i |-> 0, model_runs |-> 0, detections |-> <<>>]

InitApp(label) ==
    /\ pc = label
    /\ loop_i = 1
    /\ error = "none"
    /\ assigned = Constructed
    /\ stop_event = FALSE
    /\ stop_log = <<>>
    /\ procs = [p \in ProcNames |-> "none"]
    /\ camera_metrics = [c \in {} |-> 0]
    /\ detectors = [d \in {} |-> 0]
    /\ threads = [t \in ThreadNames |-> "none"]
    /\ wd_pc = [at |-> "wait", i |-> 1]
    /\ queues = [q \in QueueNames |->
                   IF q = "detection_queue" THEN "open" ELSE "none"]
    /\ comps = [c \in CompNames |-> "none"]
    /\ stats_saved = FALSE
    /\ detection_shms = <<>>
    /\ detection_out_events = {}
    /\ next_id = 1
    /\ shm_frame_count = 0
    /\ outcome = OutcomeNone
    /\ open_records = {}
    /\ dsp = DspIdle

Init ==
    /\ config \in Configs
    /\ shm_fs = [n \in SegNames |-> NoSeg]
    /\ InitApp("init_logger")
    /\ plan = PlanIdle
    /\ det = DetIdle

(***************************************************************************)
(* start(): one action per call, in the order of StartOrder.               *)
(***************************************************************************)
Skip(label) ==
    /\ Step(label)
    /\ UNCHANGED <<config, stop_event, stop_log, workers, channels, segs,
                   shm_frame_count, pure, aux>>
StartProc(label, p) ==
    /\ Step(label)
    /\ procs' = [procs EXCEPT ![p] = "running"]
    /\ UNCHANGED <<config, stop_event, stop_log, camera_metrics, detectors,
                   threads, wd_pc, channels, segs, shm_frame_count, pure, aux>>
StartThread(label, t) ==
    /\ Step(label)
    /\ threads' = [threads EXCEPT ![t] = "running"]
    /\ UNCHANGED <<config, stop_event, stop_log, procs, camera_metrics,
                   detectors, wd_pc, channels, segs, shm_frame_count, pure, aux>>
SetComps(label, cs) ==
    /\ Step(label)
    /\ comps' = [c \in CompNames |-> IF c \in cs THEN "up" ELSE comps[c]]
    /\ UNCHANGED <<config, stop_event, stop_log, workers, queues, stats_saved,
                   segs, shm_frame_count, pure, aux>>

init_logger == StartProc("init_logger", "log_process")
ensure_dirs == Skip("ensure_dirs")

\* the config file parses and validates; with --validate-config start()
\* stops here
init_config ==
    /\ pc = "init_config"
    /\ \E validate_config \in BOOLEAN :
         pc' = IF validate_config THEN "validate_config_exit"
               ELSE After("init_config")
    /\ camera_metrics' =
         [c \in config.cameras |->
            [frame_queue |-> "open", capture_process |-> "none",
             process |-> "none"]]
    /\ assigned' = assigned \cup Writes("init_config", config)
    /\ UNCHANGED <<config, loop_i, error, stop_event, stop_log, procs,
                   detectors, threads, wd_pc, channels, segs, shm_frame_count,
                   pure, aux>>

\* what pydantic reports for a config file that violates the schema: one
\* error per violated field, each with the path of the field and a message
\* an element of a field path is a key (a str) or a list index (an int)
Key(k) == <<"str", k>>
Index(n) == <<"int", n>>
ErrorLocs == {<<Key("mqtt"), Key("host")>>,
              <<Key("detectors"), Key("det1"), Key("type")>>,
              <<Key("cameras"), Key("cam"), Key("ffmpeg"), Key("inputs"),
                Index(0), Key("path")>>}
ValidationErrors ==
    {[loc |-> l, msg |-> "field required"] : l \in ErrorLocs}
      \cup {[loc |-> <<Key("mqtt"), Key("host")>>,
              msg |-> "str type expected"]}
ConfigErrorSets == SUBSET ValidationErrors \ {{}}

\* str(item) of one element of a field path
Str(item) ==
    IF item[1] = "str" THEN item[2]
    ELSE CASE item[2] = 0 -> "0" [] item[2] = 1 -> "1" [] OTHER -> "n"
\* ".".join(str(item) for item in error["loc"])
RECURSIVE JoinDot(_)
JoinDot(loc) ==
    IF Len(loc) = 0 THEN ""
    ELSE IF Len(loc) = 1 THEN Str(loc[1])
    ELSE Str(loc[1]) \o "." \o JoinDot(Tail(loc))
\* for error in e.errors(): print(f"{location}: {error['msg']}")
PrintFirstError(errors) ==
    IF errors = {} THEN {}
    ELSE LET e == CHOOSE x \in errors : TRUE
         IN {JoinDot(e.loc) \o ": " \o e.msg}
PrintErrors(errors) == {JoinDot(e.loc) \o ": " \o e.msg : e \in errors}

\* init_config raises: a ValidationError with its errors, or another exception
init_config_raises ==
    /\ pc = "init_config"
    /\ pc' = "config_error_exit"
    /\ \/ \E errors \in ConfigErrorSets :
            /\ error' = "ValidationError"
            /\ outcome' = [outcome EXCEPT !.failed_at = "init_config",
                                          !.errors = errors]
       \/ /\ error' = "Exception"
          /\ outcome' = [outcome EXCEPT !.failed_at = "init_config"]
    /\ UNCHANGED <<config, loop_i, assigned, stop_event, stop_log, workers,
                   channels, segs, shm_frame_count, pure, open_records, dsp>>

\* the handler of init_config: print the errors, terminate the log process
config_error_exit ==
    /\ pc = "config_error_exit"
    /\ pc' = "sys_exit"
    /\ outcome' = [outcome EXCEPT
                     !.printed = IF error = "ValidationError"
                                 THEN PrintErrors(outcome.errors)
                                 ELSE {"traceback"},
                     !.status = "1"]
    /\ procs' = [procs EXCEPT !["log_process"] = "exited"]
    /\ UNCHANGED <<config, loop_i, assigned, error, stop_event, stop_log,
                   camera_metrics, detectors, threads, wd_pc, channels, segs,
                   shm_frame_count, pure, open_records, dsp>>

\* --validate-config: report the file valid, terminate the log process
validate_config_exit ==
    /\ pc = "validate_config_exit"
    /\ pc' = "sys_exit"
    /\ outcome' = [outcome EXCEPT !.status = "0"]
    /\ procs' = [procs EXCEPT !["log_process"] = "exited"]
    /\ UNCHANGED <<config, loop_i, assigned, error, stop_event, stop_log,
                   camera_metrics, detectors, threads, wd_pc, channels, segs,
                   shm_frame_count, pure, open_records, dsp>>

\* the statements of the try block other than init_config
TryBlock ==
    {"ensure_dirs", "set_environment_vars", "set_log_levels", "init_queues",
     "init_database", "init_onvif", "init_recording_manager",
     "init_review_segment_manager", "init_embeddings_manager", "init_go2rtc",
     "bind_database", "check_db_data_migrations",
     "init_inter_process_communicator", "init_dispatcher"}

\* a statement of the try block raises an Exception
try_block_raises ==
    /\ pc \in TryBlock
    /\ pc' = "except_exit"
    /\ error' = "Exception"
    /\ outcome' = [outcome EXCEPT !.failed_at = pc]
    /\ UNCHANGED <<config, loop_i, assigned, stop_event, stop_log, workers,
                   channels, segs, shm_frame_count, pure, open_records, dsp>>

\* except Exception as e: print(e); self.log_process.terminate()
except_exit ==
    /\ pc = "except_exit"
    /\ pc' = "sys_exit"
    /\ outcome' = [outcome EXCEPT !.printed = {"exception"}, !.status = "1"]
    /\ procs' = [procs EXCEPT !["log_process"] = "exited"]
    /\ UNCHANGED <<config, loop_i, assigned, error, stop_event, stop_log,
                   camera_metrics, detectors, threads, wd_pc, channels, segs,
                   shm_frame_count, pure, open_records, dsp>>

\* the interpreter exits: multiprocessing terminates the daemonic children
AtExitKeep(ps) == ps
AtExit(ps) ==
    [p \in DOMAIN ps |-> IF ps[p] = "running" THEN "exited" ELSE ps[p]]

\* sys.exit(status)
sys_exit ==
    /\ pc = "sys_exit"
    /\ pc' = "aborted"
    /\ procs' = AtExit(procs)
    /\ camera_metrics' =
         [c \in DOMAIN camera_metrics |-> AtExit(camera_metrics[c])]
    /\ UNCHANGED <<config, loop_i, assigned, error, stop_event, stop_log,
                   detectors, threads, wd_pc, channels, segs,
                   shm_frame_count, pure, aux>>

set_environment_vars == Skip("set_environment_vars")
set_log_levels == Skip("set_log_levels")

init_queues ==
    /\ Step("init_queues")
    /\ queues' = [queues EXCEPT !["detected_frames_queue"] = "open",
                                !["timeline_queue"] = "open"]
    /\ UNCHANGED <<config, stop_event, stop_log, workers, comps, stats_saved,
                   segs, shm_frame_count, pure, aux>>

init_database == Skip("init_database")
init_onvif == SetComps("init_onvif", {"onvif_controller"})
init_recording_manager ==
    StartProc("init_recording_manager", "recording_process")
init_review_segment_manager ==
    StartProc("init_review_segment_manager", "review_segment_process")

init_embeddings_manager ==
    /\ Step("init_embeddings_manager")
    /\ IF config.semantic_search
       THEN /\ comps' = [comps EXCEPT !["embeddings"] = "up"]
            /\ procs' = [procs EXCEPT !["embedding_process"] = "running"]
       ELSE UNCHANGED <<comps, procs>>
    /\ UNCHANGED <<config, stop_event, stop_log, camera_metrics, detectors,
                   threads, wd_pc, queues, stats_saved, segs, shm_frame_count,
                   pure, aux>>

init_go2rtc == Skip("init_go2rtc")
bind_database == SetComps("bind_database", {"db"})
check_db_data_migrations == Skip("check_db_data_migrations")
init_inter_process_communicator ==
    SetComps("init_inter_process_communicator",
             {"inter_process_communicator", "inter_config_updater",
              "inter_zmq_proxy"})
init_dispatcher == SetComps("init_dispatcher", {"dispatcher"})

start_detectors ==
    /\ Step("start_detectors")
    /\ LET st == AcquireAll(CamSeq(config),
                            [fs |-> shm_fs, next_id |-> next_id,
                             shms |-> detection_shms],
                            config)
       IN /\ shm_fs' = st.fs
          /\ next_id' = st.next_id
          /\ detection_shms' = st.shms
    /\ detection_out_events' = config.cameras
    /\ detectors' = [d \in ConfigDetectors(config) |-> "running"]
    /\ UNCHANGED <<config, stop_event, stop_log, procs, camera_metrics,
                   threads, wd_pc, channels, shm_frame_count, pure, aux>>

start_video_output_processor ==
    StartProc("start_video_output_processor", "output_processor")
start_ptz_autotracker ==
    StartThread("start_ptz_autotracker", "ptz_autotracker_thread")
init_historical_regions == Skip("init_historical_regions")
start_detected_frames_processor ==
    StartThread("start_detected_frames_processor", "detected_frames_processor")

start_camera_processors ==
    /\ Step("start_camera_processors")
    /\ camera_metrics' =
         [c \in DOMAIN camera_metrics |->
            IF c \in config.enabled
            THEN [camera_metrics[c] EXCEPT !.process = "running"]
            ELSE camera_metrics[c]]
    /\ UNCHANGED <<config, stop_event, stop_log, procs, detectors, threads,
                   wd_pc, channels, segs, shm_frame_count, pure, aux>>

\* camera.detect.width and height of a configured camera
DetectDim(c) ==
    IF c = "yard" THEN [width |-> 1920, height |-> 1080]
    ELSE [width |-> 1280, height |-> 720]
ConfigCameras(cfg) ==
    [i \in 1..Len(CamSeq(cfg)) |->
       [enabled |-> CamSeq(cfg)[i] \in cfg.enabled,
        width |-> DetectDim(CamSeq(cfg)[i]).width,
        height |-> DetectDim(CamSeq(cfg)[i]).height]]
\* the /dev/shm capacity the supervisor is run with (Docker's default)
DevShmTotals == {64 * MiB}

check_shm_step ==
    /\ pc = "check_shm"
    /\ \E total_bytes \in DevShmTotals :
         LET r == check_shm(total_bytes, FALSE, ConfigCameras(config))
         IN IF r.raised
            THEN /\ Raise("check_shm", "ZeroDivisionError")
                 /\ UNCHANGED shm_frame_count
            ELSE /\ Step("check_shm")
                 /\ shm_frame_count' = r.frames
    /\ UNCHANGED <<config, stop_event, stop_log, workers, channels, segs, pure, aux>>

start_camera_capture_processes ==
    /\ Step("start_camera_capture_processes")
    /\ camera_metrics' =
         [c \in DOMAIN camera_metrics |->
            IF c \in config.enabled
            THEN [camera_metrics[c] EXCEPT !.capture_process = "running"]
            ELSE camera_metrics[c]]
    /\ UNCHANGED <<config, stop_event, stop_log, procs, detectors, threads,
                   wd_pc, channels, segs, shm_frame_count, pure, aux>>

start_audio_processors ==
    /\ Step("start_audio_processors")
    /\ procs' = IF config.audio
                THEN [procs EXCEPT !["audio_process"] = "running"]
                ELSE procs
    /\ UNCHANGED <<config, stop_event, stop_log, camera_metrics, detectors,
                   threads, wd_pc, channels, segs, shm_frame_count, pure, aux>>

start_storage_maintainer ==
    StartThread("start_storage_maintainer", "storage_maintainer")
init_external_event_processor ==
    SetComps("init_external_event_processor", {"external_event_processor"})
start_stats_emitter == StartThread("start_stats_emitter", "stats_emitter")
init_web_server == SetComps("init_web_server", {"flask_app"})
start_timeline_processor ==
    StartThread("start_timeline_processor", "timeline_processor")
start_event_processor == StartThread("start_event_processor", "event_processor")
start_event_cleanup == StartThread("start_event_cleanup", "event_cleanup")
start_record_cleanup == StartThread("start_record_cleanup", "record_cleanup")
start_watchdog == StartThread("start_watchdog", "frigate_watchdog")
init_auth == Skip("init_auth")

\* flask_app.run() serves until SIGINT raises KeyboardInterrupt; then stop()
flask_run == Skip("flask_run")

StartNext ==
    \/ init_logger \/ ensure_dirs \/ init_config \/ set_environment_vars
    \/ set_log_levels \/ init_queues \/ init_database \/ init_onvif
    \/ init_recording_manager \/ init_review_segment_manager
    \/ init_embeddings_manager \/ init_go2rtc \/ bind_database
    \/ check_db_data_migrations \/ init_inter_process_communicator
    \/ init_dispatcher \/ start_detectors \/ start_video_output_processor
    \/ start_ptz_autotracker \/ init_historical_regions
    \/ start_detected_frames_processor \/ start_camera_processors
    \/ check_shm_step \/ start_camera_capture_processes
    \/ start_audio_processors \/ start_storage_maintainer
    \/ init_external_event_processor \/ start_stats_emitter
    \/ init_web_server \/ start_timeline_processor \/ start_event_processor
    \/ start_event_cleanup \/ start_record_cleanup \/ start_watchdog
    \/ init_auth \/ flask_run
    \/ init_config_raises \/ config_error_exit \/ validate_config_exit
    \/ try_block_raises \/ except_exit \/ sys_exit

(***************************************************************************)
(* stop(): one action per statement group, in the order of StopOrder.  A   *)
(* join is enabled once the joined thread has exited.                      *)
(***************************************************************************)
set_stop_event ==
    /\ Step("set_stop_event")
    /\ stop_event' = TRUE
    /\ Log("set_stop_event")
    /\ UNCHANGED <<config, workers, channels, segs, shm_frame_count, pure, aux>>

\* Event.update(end_time=...) and ReviewSegment.update(end_time=...)
\* Event.update(end_time = now).where(end_time == None), and the same for
\* ReviewSegment
finalize_records ==
    /\ Step("finalize_records")
    /\ Log("finalize_records")
    /\ open_records' = {}
    /\ UNCHANGED <<config, stop_event, workers, channels, segs,
                   shm_frame_count, pure, outcome, dsp>>

stop_audio ==
    /\ Step("stop_audio")
    /\ Log("stop_audio")
    /\ procs' = IF procs["audio_process"] # "none"
                THEN [procs EXCEPT !["audio_process"] = "exited"]
                ELSE procs
    /\ UNCHANGED <<config, stop_event, camera_metrics, detectors, threads,
                   wd_pc, channels, segs, shm_frame_count, pure, aux>>

\* one iteration of a for loop over `seq`: the last one leaves the loop
Iterate(label, seq) ==
    /\ pc = label
    /\ loop_i \in 1..Len(seq)
    /\ IF loop_i = Len(seq)
       THEN pc' = After(label) /\ loop_i' = 1
       ELSE pc' = pc /\ loop_i' = loop_i + 1
    /\ UNCHANGED <<error, assigned>>

stop_capture ==
    /\ Iterate("stop_capture", CamSeq(config))
    /\ Log("stop_capture")
    /\ LET camera == CamSeq(config)[loop_i]
       IN camera_metrics' =
            IF camera_metrics[camera].capture_process # "none"
            THEN [camera_metrics EXCEPT ![camera].capture_process = "exited"]
            ELSE camera_metrics
    /\ UNCHANGED <<config, stop_event, procs, detectors, threads, wd_pc,
                   channels, segs, shm_frame_count, pure, aux>>

stop_camera_processors ==
    /\ Iterate("stop_camera_processors", CamSeq(config))
    /\ Log("stop_camera_processors")
    /\ LET camera == CamSeq(config)[loop_i]
       IN camera_metrics' =
            IF camera_metrics[camera].process # "none"
            THEN [camera_metrics EXCEPT ![camera].process = "exited",
                                        ![camera].frame_queue = "closed"]
            ELSE camera_metrics
    /\ UNCHANGED <<config, stop_event, procs, detectors, threads, wd_pc,
                   channels, segs, shm_frame_count, pure, aux>>

\* ObjectDetectProcess.stop(): terminate the worker and wait for its exit
stop_detectors ==
    /\ Iterate("stop_detectors", DetSeq(config))
    /\ Log("stop_detectors")
    /\ detectors' = [detectors EXCEPT ![DetSeq(config)[loop_i]] = "exited"]
    /\ UNCHANGED <<config, stop_event, procs, camera_metrics, threads, wd_pc,
                   channels, segs, shm_frame_count, pure, aux>>

CloseQueue(q) == queues' = [queues EXCEPT ![q] = "closed"]
Joined(ts) == \A t \in ts : threads[t] = "exited"
StopComps(cs) ==
    comps' = [c \in CompNames |-> IF c \in cs THEN "stopped" ELSE comps[c]]

close_detection_queue ==
    /\ Step("close_detection_queue")
    /\ Log("close_detection_queue")
    /\ CloseQueue("detection_queue")
    /\ UNCHANGED <<config, stop_event, workers, comps, stats_saved, segs,
                   shm_frame_count, pure, aux>>

join_detected_frames_processor ==
    /\ Joined({"detected_frames_processor"})
    /\ Step("join_detected_frames_processor")
    /\ Log("join_detected_frames_processor")
    /\ CloseQueue("detected_frames_queue")
    /\ UNCHANGED <<config, stop_event, workers, comps, stats_saved, segs,
                   shm_frame_count, pure, aux>>

join_timeline ==
    /\ Joined({"timeline_processor", "event_processor"})
    /\ Step("join_timeline")
    /\ Log("join_timeline")
    /\ CloseQueue("timeline_queue")
    /\ UNCHANGED <<config, stop_event, workers, comps, stats_saved, segs,
                   shm_frame_count, pure, aux>>

stop_output_record_review ==
    /\ Step("stop_output_record_review")
    /\ Log("stop_output_record_review")
    /\ procs' = [p \in ProcNames |->
                   IF p \in {"output_processor", "recording_process",
                             "review_segment_process"}
                   THEN "exited" ELSE procs[p]]
    /\ UNCHANGED <<config, stop_event, camera_metrics, detectors, threads,
                   wd_pc, channels, segs, shm_frame_count, pure, aux>>

stop_external_dispatcher ==
    /\ Step("stop_external_dispatcher")
    /\ Log("stop_external_dispatcher")
    /\ StopComps({"external_event_processor", "dispatcher"})
    /\ UNCHANGED <<config, stop_event, workers, queues, stats_saved, segs,
                   shm_frame_count, pure, aux>>

join_ptz_autotracker ==
    /\ Joined({"ptz_autotracker_thread"})
    /\ Step("join_ptz_autotracker")
    /\ Log("join_ptz_autotracker")
    /\ UNCHANGED <<config, stop_event, workers, channels, segs,
                   shm_frame_count, pure, aux>>

join_cleanup_stats_watchdog ==
    /\ Joined({"event_cleanup", "record_cleanup", "stats_emitter",
               "frigate_watchdog"})
    /\ Step("join_cleanup_stats_watchdog")
    /\ Log("join_cleanup_stats_watchdog")
    /\ UNCHANGED <<config, stop_event, workers, channels, segs,
                   shm_frame_count, pure, aux>>

stop_db ==
    /\ Step("stop_db")
    /\ Log("stop_db")
    /\ StopComps({"db"})
    /\ UNCHANGED <<config, stop_event, workers, queues, stats_saved, segs,
                   shm_frame_count, pure, aux>>

save_embeddings_stats ==
    /\ Step("save_embeddings_stats")
    /\ Log("save_embeddings_stats")
    /\ stats_saved' = (comps["embeddings"] = "up")
    /\ UNCHANGED <<config, stop_event, workers, queues, comps, segs,
                   shm_frame_count, pure, aux>>

stop_communicators ==
    /\ Step("stop_communicators")
    /\ Log("stop_communicators")
    /\ StopComps({"inter_process_communicator", "inter_config_updater",
                  "inter_zmq_proxy"})
    /\ UNCHANGED <<config, stop_event, workers, queues, stats_saved, segs,
                   shm_frame_count, pure, aux>>

\* while len(self.detection_shms) > 0: shm = pop(); shm.close(); shm.unlink()
\* unlink of a name that no longer exists raises FileNotFoundError
release_shms ==
    /\ pc = "release_shms"
    /\ detection_shms # <<>>
    /\ Log("release_shms")
    /\ LET shm == detection_shms[Len(detection_shms)]
           rest == SubSeq(detection_shms, 1, Len(detection_shms) - 1)
       IN /\ detection_shms' = rest
          /\ IF shm_fs[shm.name] = NoSeg
             THEN /\ Raise("release_shms", "FileNotFoundError")
                  /\ UNCHANGED shm_fs
             ELSE /\ shm_fs' = [shm_fs EXCEPT ![shm.name] = NoSeg]
                  /\ pc' = IF rest = <<>> THEN After("release_shms") ELSE pc
                  /\ UNCHANGED <<loop_i, error, assigned>>
    /\ UNCHANGED <<config, stop_event, workers, channels,
                   detection_out_events, next_id, shm_frame_count, pure, aux>>

stop_log_process ==
    /\ Step("stop_log_process")
    /\ Log("stop_log_process")
    /\ procs' = [procs EXCEPT !["log_process"] = "exited"]
    /\ UNCHANGED <<config, stop_event, camera_metrics, detectors, threads,
                   wd_pc, channels, segs, shm_frame_count, pure, aux>>

\* os._exit(os.EX_OK): the supervisor process and all its threads are gone
os_exit ==
    /\ Step("os_exit")
    /\ threads' = [t \in ThreadNames |->
                     IF threads[t] = "none" THEN "none" ELSE "exited"]
    /\ UNCHANGED <<config, stop_event, stop_log, procs, camera_metrics,
                   detectors, wd_pc, channels, segs, shm_frame_count, pure, aux>>

StopNext ==
    \/ set_stop_event \/ finalize_records \/ stop_audio \/ stop_capture
    \/ stop_camera_processors \/ stop_detectors \/ close_detection_queue
    \/ join_detected_frames_processor \/ join_timeline
    \/ stop_output_record_review \/ stop_external_dispatcher
    \/ join_ptz_autotracker \/ join_cleanup_stats_watchdog \/ stop_db
    \/ save_embeddings_stats \/ stop_communicators \/ release_shms
    \/ stop_log_process \/ os_exit

(***************************************************************************)
(* The workers.  Every thread is constructed with stop_event and leaves    *)
(* its loop when it observes the event set.  The watchdog polls the        *)
(* detectors; a detector found unresponsive is terminated and started      *)
(* again.                                                                  *)
(***************************************************************************)
SupervisorAlive == pc \notin {"exited", "crashed", "aborted"}

ThreadExit(t) ==
    /\ t # "frigate_watchdog"
    /\ threads[t] = "running"
    /\ stop_event
    /\ threads' = [threads EXCEPT ![t] = "exited"]
    /\ UNCHANGED <<config, ctl, stop_event, stop_log, procs, camera_metrics,
                   detectors, wd_pc, channels, segs, shm_frame_count, pure, aux>>

\* a detector worker stops responding
DetectorHang(d) ==
    /\ SupervisorAlive
    /\ d \in DOMAIN detectors
    /\ detectors[d] = "running"
    /\ detectors' = [detectors EXCEPT ![d] = "stuck"]
    /\ UNCHANGED <<config, ctl, stop_event, stop_log, procs, camera_metrics,
                   threads, wd_pc, channels, segs, shm_frame_count, pure, aux>>

\* while not stop_event.wait(interval): one pass over the detectors
WatchdogPoll ==
    /\ threads["frigate_watchdog"] = "running"
    /\ wd_pc.at = "wait"
    /\ IF stop_event
       THEN /\ threads' = [threads EXCEPT !["frigate_watchdog"] = "exited"]
            /\ UNCHANGED wd_pc
       ELSE /\ wd_pc' = [at |-> "check", i |-> 1]
            /\ UNCHANGED threads
    /\ UNCHANGED <<config, ctl, stop_event, stop_log, procs, camera_metrics,
                   detectors, channels, segs, shm_frame_count, pure, aux>>

\* the pass is at detector d
WatchdogAt(d) ==
    /\ threads["frigate_watchdog"] = "running"
    /\ d \in DOMAIN detectors
    /\ wd_pc.i <= Len(DetSeq(config))
    /\ d = DetSeq(config)[wd_pc.i]

\* the detector is unresponsive: terminate its worker process ...
WatchdogTerminate(d) ==
    /\ WatchdogAt(d)
    /\ wd_pc.at = "check"
    /\ detectors[d] = "stuck"
    /\ detectors' = [detectors EXCEPT ![d] = "exited"]
    /\ wd_pc' = [wd_pc EXCEPT !.at = "restart"]
    /\ UNCHANGED <<config, ctl, stop_event, stop_log, procs, camera_metrics,
                   threads, channels, segs, shm_frame_count, pure, aux>>

\* a restart that makes new completion flags for the new worker
WatchdogRestartFresh(d) ==
    /\ WatchdogAt(d)
    /\ wd_pc.at = "restart"
    /\ detectors' = [detectors EXCEPT ![d] = "running"]
    /\ wd_pc' = [at |-> "check", i |-> wd_pc.i + 1]
    /\ detection_out_events' = {}
    /\ UNCHANGED <<config, ctl, stop_event, stop_log, procs, camera_metrics,
                   threads, channels, shm_fs, detection_shms, next_id,
                   shm_frame_count, pure, aux>>

\* ... and start a new worker on the same queue, events and segments
WatchdogRestart(d) ==
    /\ WatchdogAt(d)
    /\ wd_pc.at = "restart"
    /\ detectors' = [detectors EXCEPT ![d] = "running"]
    /\ wd_pc' = [at |-> "check", i |-> wd_pc.i + 1]
    /\ UNCHANGED <<config, ctl, stop_event, stop_log, procs, camera_metrics,
                   threads, channels, segs, shm_frame_count, pure, aux>>

\* the detector responds: on to the next one
WatchdogSkip(d) ==
    /\ WatchdogAt(d)
    /\ wd_pc.at = "check"
    /\ detectors[d] # "stuck"
    /\ wd_pc' = [wd_pc EXCEPT !.i = @ + 1]
    /\ UNCHANGED <<config, ctl, stop_event, stop_log, procs, camera_metrics,
                   detectors, threads, channels, segs, shm_frame_count, pure,
                   aux>>

\* the pass over the detectors ends; back to waiting on stop_event
WatchdogSleep ==
    /\ threads["frigate_watchdog"] = "running"
    /\ wd_pc.at = "check"
    /\ wd_pc.i > Len(DetSeq(config))
    /\ wd_pc' = [at |-> "wait", i |-> 1]
    /\ UNCHANGED <<config, ctl, stop_event, stop_log, procs, camera_metrics,
                   detectors, threads, channels, segs, shm_frame_count, pure,
                   aux>>

WorkerNext ==
    \/ \E t \in ThreadNames : ThreadExit(t)
    \/ \E d \in DetectorNames : DetectorHang(d)
    \/ WatchdogPoll
    \/ \E d \in DetectorNames : WatchdogTerminate(d)
    \/ \E d \in DetectorNames : WatchdogRestart(d)
    \/ \E d \in DetectorNames : WatchdogSkip(d)
    \/ WatchdogSleep

Next == StartNext \/ StopNext \/ WorkerNext

Spec == Init /\ [][Next]_vars

(***************************************************************************)
(* The lifecycle together with the workers that write events and review    *)
(* segments to the store: the event processor thread and the review        *)
(* segment manager process open a record when an event or a segment        *)
(* starts and stamp its end time when it ends.                             *)
(***************************************************************************)
RecordKinds == {"event", "review_segment"}

\* the worker that writes records of this kind is running
RecordWriterRunning(kind) ==
    /\ SupervisorAlive
    /\ IF kind = "event" THEN threads["event_processor"] = "running"
       ELSE procs["review_segment_process"] = "running"

\* a worker inserts a record that has no end time yet
OpenRecord(kind) ==
    /\ RecordWriterRunning(kind)
    /\ kind \notin open_records
    /\ open_records' = open_records \cup {kind}
    /\ UNCHANGED <<config, ctl, stop_event, stop_log, workers, channels, segs,
                   shm_frame_count, pure, outcome, dsp>>

\* the worker stamps the end time of its open record
CloseRecord(kind) ==
    /\ RecordWriterRunning(kind)
    /\ kind \in open_records
    /\ open_records' = open_records \ {kind}
    /\ UNCHANGED <<config, ctl, stop_event, stop_log, workers, channels, segs,
                   shm_frame_count, pure, outcome, dsp>>

StoreNext ==
    \/ \E kind \in RecordKinds : OpenRecord(kind)
    \/ \E kind \in RecordKinds : CloseRecord(kind)

StoreConfigs ==
    { c \in [cameras : {{"cam"}}, enabled : SUBSET CameraNames,
             audio : {FALSE}, semantic_search : BOOLEAN,
             ndetectors : {1}] :
        c.enabled \subseteq c.cameras }

InitStore ==
    /\ config \in StoreConfigs
    /\ shm_fs = [n \in SegNames |-> NoSeg]
    /\ InitApp("init_logger")
    /\ plan = PlanIdle
    /\ det = DetIdle

SpecStore == InitStore /\ [][Next \/ StoreNext]_vars

(***************************************************************************)
(* The lifecycle with threads that do not come back from what they are     *)
(* doing: such a thread never looks at stop_event again and never exits.   *)
(***************************************************************************)
MaxHung == 1
Hung == {t \in ThreadNames : threads[t] = "hung"}

ThreadHang(t) ==
    /\ SupervisorAlive
    /\ Cardinality(Hung) < MaxHung
    /\ threads[t] = "running"
    /\ stop_event
    /\ threads' = [threads EXCEPT ![t] = "hung"]
    /\ UNCHANGED <<config, ctl, stop_event, stop_log, procs, camera_metrics,
                   detectors, wd_pc, channels, segs, shm_frame_count, pure, aux>>

HangNext == \E t \in ThreadNames : ThreadHang(t)

SpecHang == InitStore /\ [][Next \/ HangNext]_vars

(***************************************************************************)
(* The lifecycle with termination signals delivered while stop() runs.     *)
(* start() installs a SIGTERM handler that sends SIGINT to the process;    *)
(* SIGINT raises KeyboardInterrupt in the main thread, which start()       *)
(* catches around flask_app.run only.                                      *)
(***************************************************************************)
\* SIGTERM or SIGINT arrives while the main thread executes stop(): the
\* KeyboardInterrupt leaves stop() and start() and ends the interpreter
Interrupt ==
    /\ stop_event
    /\ pc \in {StopOrder[i] : i \in 1..Len(StopOrder)}
    /\ pc' = "sys_exit"
    /\ error' = "KeyboardInterrupt"
    /\ outcome' = [outcome EXCEPT !.failed_at = pc, !.status = "1"]
    /\ UNCHANGED <<config, loop_i, assigned, stop_event, stop_log, workers,
                   channels, segs, shm_frame_count, pure, open_records, dsp>>

SpecSignal == InitStore /\ [][Next \/ Interrupt]_vars

(***************************************************************************)
(* The lifecycle with failing startup steps after the try block: the calls *)
(* from start_detectors to init_auth are made outside any try statement.   *)
(***************************************************************************)
\* the calls of start() that follow start_detectors
AfterDetectors ==
    {"start_video_output_processor", "start_ptz_autotracker",
     "init_historical_regions", "start_detected_frames_processor",
     "start_camera_processors", "check_shm",
     "start_camera_capture_processes", "start_audio_processors",
     "start_storage_maintainer", "init_external_event_processor",
     "start_stats_emitter", "init_web_server", "start_timeline_processor",
     "start_event_processor", "start_event_cleanup", "start_record_cleanup",
     "start_watchdog", "init_auth"}

\* one of them raises an Exception: nothing catches it
startup_raises ==
    /\ pc \in AfterDetectors
    /\ Raise(pc, "Exception")
    /\ outcome' = [outcome EXCEPT !.failed_at = pc]
    /\ UNCHANGED <<config, stop_event, stop_log, workers, channels, segs,
                   shm_frame_count, pure, open_records, dsp>>

SpecStartFail == InitStore /\ [][Next \/ startup_raises]_vars

(***************************************************************************)
(* The lifecycle under fair scheduling: the supervisor keeps taking its    *)
(* next step, a thread that can observe stop_event does so, and the        *)
(* watchdog keeps running its pass.  Nothing obliges a detector to hang.   *)
(***************************************************************************)
LiveConfigs ==
    { c \in [cameras : {{"cam"}, {"cam", "out-cam"}},
             enabled : SUBSET CameraNames,
             audio : BOOLEAN, semantic_search : {FALSE},
             ndetectors : {1}] :
        c.enabled = c.cameras }

InitLive ==
    /\ config \in LiveConfigs
    /\ shm_fs = [n \in SegNames |-> NoSeg]
    /\ InitApp("init_logger")
    /\ plan = PlanIdle
    /\ det = DetIdle

Fairness ==
    /\ WF_vars(StartNext \/ StopNext)
    /\ \A t \in ThreadNames : WF_vars(ThreadExit(t))
    /\ WF_vars(WatchdogPoll \/ WatchdogSleep)
    /\ \A d \in DetectorNames :
          WF_vars(WatchdogTerminate(d) \/ WatchdogRestart(d)
                    \/ WatchdogSkip(d))

SpecLive == InitLive /\ [][Next]_vars /\ Fairness

(***************************************************************************)
(* The segment registry on its own: start_detectors acquires the segments  *)
(* of any camera set, over a namespace that may hold segments a previous   *)
(* run left behind; the steps in between leave the registry alone; stop()  *)
(* releases them.                                                          *)
(***************************************************************************)
InitRegistry ==
    /\ config \in SegConfigs
    /\ \E stale \in StaleSets :
         shm_fs = [n \in SegNames |->
                     IF n \in stale THEN [id |-> StaleId(n), size |-> StaleSize]
                     ELSE NoSeg]
    /\ InitApp("start_detectors")
    /\ plan = PlanIdle
    /\ det = DetIdle

\* start_video_output_processor .. stop_communicators
between_acquire_and_release ==
    /\ pc = After("start_detectors")
    /\ pc' = "release_shms"
    /\ UNCHANGED <<config, loop_i, assigned, error, stop_event, stop_log,
                   workers, channels, segs, shm_frame_count, pure, aux>>

RegistryNext == start_detectors \/ between_acquire_and_release \/ release_shms

SpecRegistry == InitRegistry /\ [][RegistryNext]_vars

(***************************************************************************)
(* check_shm on its own, over capacities and camera sets.                  *)
(***************************************************************************)
MaxPlanCameras == 3

PlanShapes ==
    { [enabled |-> e, width |-> d[1], height |-> d[2]] :
        e \in BOOLEAN, d \in {<<1280, 720>>, <<1280, 960>>, <<1920, 1080>>} }
PlanCameras ==
    UNION { [1..n -> PlanShapes] : n \in 0..MaxPlanCameras }
\* capacities in bytes; on these inputs the tenths arithmetic above gives
\* the result of the code's double arithmetic
PlanTotals ==
    { m * MiB + r : m \in {1, 9, 11, 50, 58, 64, 100, 256},
                    r \in {0, 52429, 524288} }

InitShm ==
    /\ config = CHOOSE c \in Configs : TRUE
    /\ shm_fs = [n \in SegNames |-> NoSeg]
    /\ InitApp("idle")
    /\ det = DetIdle
    /\ \E t \in PlanTotals, r \in BOOLEAN, cams \in PlanCameras :
         plan = [PlanIdle EXCEPT !.total_bytes = t, !.restream = r,
                                 !.cameras = cams]

check_shm_call ==
    /\ ~plan.done
    /\ LET r == check_shm(plan.total_bytes, plan.restream, plan.cameras)
       IN plan' = [plan EXCEPT !.done = TRUE, !.raised = r.raised,
                               !.frames = r.frames, !.warned = r.warned]
    /\ UNCHANGED <<config, ctl, stop_event, stop_log, workers, channels, segs,
                   shm_frame_count, det, aux>>

SpecShm == InitShm /\ [][check_shm_call]_vars

(***************************************************************************)
(* ONNXDetector.detect_raw.  Numbers stored in the float array are exact   *)
(* fractions <<numerator, denominator>> in lowest terms.                   *)
(***************************************************************************)
MaxRawRows == 22
MaxDetections == 20
Columns == 6

RECURSIVE GCD(_, _)
GCD(a, b) == IF b = 0 THEN a ELSE GCD(b, a % b)
Abs(a) == IF a < 0 THEN 0 - a ELSE a
\* a / b as stored in the array (b > 0)
Frac(a, b) ==
    LET g == GCD(Abs(a), b) IN <<a \div g, b \div g>>
Zero == Frac(0, 1)
\* np.zeros((20, 6), np.float32)
Zeros == [r \in 1..MaxDetections |-> [c \in 1..Columns |-> Zero]]

ModelTypes == {"yolonas", "ssd", "yolox"}
ModelShapes == {[h |-> 320, w |-> 320], [h |-> 480, w |-> 640]}

\* raw output row k of the model (0-based k):
\* (_, x_min, y_min, x_max, y_max, confidence, class_id)
RawRow(k) ==
    <<0, 10 * k, 10 * k + 5, 10 * k + 100, 10 * k + 105, 99 - k, k % 3>>
\* raw output row k for an object cut by the frame border: the model
\* regresses the box sides from anchor points, so a side may fall left of
\* column 0 or beyond the last column of the input
EdgeRow(k) ==
    <<0, 0 - (4 + k), 10 * k + 5, 650 + k, 10 * k + 105, 99 - k, k % 3>>
SentinelRow == <<0, 0, 0, 0, 0, 0, -1>>
\* n raw rows whose first sentinel is row `first` (none when first > n);
\* the rows after it are sentinels too, or look valid again; with `edge`
\* every second object is cut by the frame border
RawOutput(n, first, valid_tail, edge) ==
    [k \in 1..n |->
       IF k < first \/ (k > first /\ valid_tail)
       THEN (IF edge /\ k % 2 = 0 THEN EdgeRow(k - 1) ELSE RawRow(k - 1))
       ELSE SentinelRow]
Predictions ==
    { RawOutput(n, first, t, e) :
        n \in 0..MaxRawRows, first \in 1..(MaxRawRows + 1),
        t \in BOOLEAN, e \in BOOLEAN }

InitDetect ==
    /\ config = CHOOSE c \in Configs : TRUE
    /\ shm_fs = [n \in SegNames |-> NoSeg]
    /\ InitApp("idle")
    /\ plan = PlanIdle
    /\ \E m \in ModelTypes, shape \in ModelShapes, p \in Predictions :
         det = [DetIdle EXCEPT !.model_type = m, !.h = shape.h, !.w = shape.w,
                               !.predictions = p, !.at = "run"]

DetUnchanged ==
    UNCHANGED <<config, ctl, stop_event, stop_log, workers, channels, segs,
                shm_frame_count, plan, aux>>

\* lines 71-84: preprocess the input for yolonas, then self.model.run(...)
detect_run_model ==
    /\ det.at = "run"
    /\ det' = [det EXCEPT !.model_runs = @ + 1, !.at = "dispatch"]
    /\ DetUnchanged

\* lines 86-89 and 107-110: the model family decides
detect_dispatch ==
    /\ det.at = "dispatch"
    /\ det' = IF det.model_type = "yolonas"
              THEN [det EXCEPT !.detections = Zeros, !.i = 0, !.at = "loop"]
              ELSE [det EXCEPT !.at = "raised"]
    /\ DetUnchanged

\* the row written for a raw prediction
RemapSwapped(prediction, h, w) ==
    <<Frac(prediction[7], 1), Frac(prediction[6], 1),
      Frac(prediction[2], w), Frac(prediction[3], h),
      Frac(prediction[4], w), Frac(prediction[5], h)>>
Remap(prediction, h, w) ==
    <<Frac(prediction[7], 1), Frac(prediction[6], 1),
      Frac(prediction[3], h), Frac(prediction[2], w),
      Frac(prediction[5], h), Frac(prediction[4], w)>>

\* lines 91-106: one iteration of `for i, prediction in enumerate(...)`
detect_loop ==
    /\ det.at = "loop"
    /\ det' =
         IF det.i = Len(det.predictions) \/ det.i = MaxDetections
         THEN [det EXCEPT !.at = "returned"]
         ELSE LET prediction == det.predictions[det.i + 1]
              IN IF prediction[7] < 0
                 THEN [det EXCEPT !.at = "returned"]
                 ELSE [det EXCEPT
                         !.detections[det.i + 1] = Remap(prediction, det.h, det.w),
                         !.i = @ + 1]
    /\ DetUnchanged

DetectNext == detect_run_model \/ detect_dispatch \/ detect_loop

SpecDetect == InitDetect /\ [][DetectNext]_vars

(***************************************************************************)
(* Detection dispatch.  A camera's processing worker copies a frame into   *)
(* the camera's input segment, clears the camera's completion flag, puts   *)
(* the camera name on the detection queue and waits for the flag; a        *)
(* detector worker takes a name from the queue, runs inference on that     *)
(* input segment, writes the result into the output segment and raises the *)
(* flag.  The segment and flag of a camera are those start_detectors made  *)
(* under the camera's name.                                                *)
(***************************************************************************)
DspUnchanged ==
    UNCHANGED <<config, ctl, stop_event, stop_log, workers, channels, segs,
                shm_frame_count, pure, outcome, open_records>>
ProcessorRunning(c) ==
    c \in DOMAIN camera_metrics /\ camera_metrics[c].process = "running"
DetectorRunning(d) == d \in DOMAIN detectors /\ detectors[d] = "running"

WorkerWriteInput(c) ==
    /\ ProcessorRunning(c)
    /\ dsp.worker[c] = "idle"
    /\ dsp' = [dsp EXCEPT !.worker[c] = "writing"]
    /\ DspUnchanged

WorkerSubmit(c) ==
    /\ ProcessorRunning(c)
    /\ dsp.worker[c] = "writing"
    /\ dsp' = [dsp EXCEPT !.worker[c] = "waiting",
                          !.flag = @ \ {c},
                          !.queue = Append(@, c)]
    /\ DspUnchanged

DetectorTake(d) ==
    /\ DetectorRunning(d)
    /\ dsp.holder[d] = NoJob
    /\ dsp.queue # <<>>
    /\ dsp' = [dsp EXCEPT !.holder[d] = [job |-> Head(dsp.queue),
                                         phase |-> "infer"],
                          !.queue = Tail(@)]
    /\ DspUnchanged

DetectorWriteOutput(d) ==
    /\ DetectorRunning(d)
    /\ dsp.holder[d].phase = "infer"
    /\ dsp' = [dsp EXCEPT !.holder[d].phase = "write"]
    /\ DspUnchanged

DetectorSignal(d) ==
    /\ DetectorRunning(d)
    /\ dsp.holder[d].phase = "write"
    /\ dsp' = [dsp EXCEPT !.flag = @ \cup {dsp.holder[d].job},
                          !.holder[d] = NoJob]
    /\ DspUnchanged

WorkerWake(c) ==
    /\ ProcessorRunning(c)
    /\ dsp.worker[c] = "waiting"
    /\ c \in dsp.flag
    /\ dsp' = [dsp EXCEPT !.worker[c] = "reading"]
    /\ DspUnchanged

WorkerDone(c) ==
    /\ ProcessorRunning(c)
    /\ dsp.worker[c] = "reading"
    /\ dsp' = [dsp EXCEPT !.worker[c] = "idle"]
    /\ DspUnchanged

\* a detector worker is terminated and started again: the job it held is gone
DetectorRestart(d) ==
    /\ DetectorRunning(d)
    /\ dsp.holder[d] # NoJob
    /\ dsp' = [dsp EXCEPT !.holder[d] = NoJob]
    /\ DspUnchanged

DispatchNext ==
    \/ \E c \in CameraNames :
         \/ WorkerWriteInput(c) \/ WorkerSubmit(c)
         \/ WorkerWake(c) \/ WorkerDone(c)
    \/ \E d \in DetectorNames :
         \/ DetectorTake(d) \/ DetectorWriteOutput(d)
         \/ DetectorSignal(d) \/ DetectorRestart(d)

\* start() up to the camera processing workers
DispatchStart ==
    \/ init_logger \/ ensure_dirs \/ init_config \/ set_environment_vars
    \/ set_log_levels \/ init_queues \/ init_database \/ init_onvif
    \/ init_recording_manager \/ init_review_segment_manager
    \/ init_embeddings_manager \/ init_go2rtc \/ bind_database
    \/ check_db_data_migrations \/ init_inter_process_communicator
    \/ init_dispatcher \/ start_detectors \/ start_video_output_processor
    \/ start_ptz_autotracker \/ init_historical_regions
    \/ start_detected_frames_processor \/ start_camera_processors

InitDispatch ==
    /\ config \in SegConfigs
    /\ shm_fs = [n \in SegNames |-> NoSeg]
    /\ InitApp("init_logger")
    /\ plan = PlanIdle
    /\ det = DetIdle

SpecDispatch == InitDispatch /\ [][DispatchStart \/ DispatchNext]_vars

(***************************************************************************)
(* Properties of the shutdown sequence (Spec).                             *)
(***************************************************************************)
\* a segment of camera c that start_detectors acquired no longer exists
Released(c) ==
    /\ c \in detection_out_events
    /\ (shm_fs[c] = NoSeg \/ shm_fs[OutName(c)] = NoSeg)
Alive(state) == state \in {"running", "stuck"}
SomeDetectorAlive == \E d \in DOMAIN detectors : Alive(detectors[d])
CameraProcessAlive(c) ==
    c \in DOMAIN camera_metrics /\ Alive(camera_metrics[c].process)
CaptureAlive(c) ==
    c \in DOMAIN camera_metrics /\ Alive(camera_metrics[c].capture_process)

\* C1: no shared-memory segment is closed or unlinked while a process that
\* references it (the camera's processing worker, or a detector worker) is
\* still running.
C1_NoReleaseWhileReferenced ==
    \A c \in CameraNames :
        Released(c) => ~CameraProcessAlive(c) /\ ~SomeDetectorAlive

\* C2: after stop() completes, every segment created during the run has
\* been unlinked and every process spawned during startup has exited.
C2_AllReleasedAndExited ==
    pc = "exited" =>
        /\ \A n \in SegNames : shm_fs[n] = NoSeg
        /\ \A p \in ProcNames : ~Alive(procs[p])
        /\ \A c \in DOMAIN camera_metrics :
              ~CameraProcessAlive(c) /\ ~CaptureAlive(c)
        /\ ~SomeDetectorAlive

\* the workers that open the persistent store themselves
StoreWorkers(cfg) ==
    {"recording_process", "review_segment_process"}
      \cup (IF cfg.semantic_search THEN {"embedding_process"} ELSE {})

\* C3: when the supervisor's store-writer connection is bound, every worker
\* that accesses the persistent store has already been created.
C3_BindAfterStoreWorkers ==
    comps["db"] # "none" =>
        \A p \in StoreWorkers(config) : procs[p] # "none"
C3_Witness ==
    /\ pc = After("bind_database")
    /\ comps["db"] = "up"
    /\ config.semantic_search
    /\ procs["embedding_process"] = "running"

\* the stop signal followed by the 17 steps of the shutdown sequence
ShutdownSteps ==
    <<"set_stop_event",
      "finalize_records", "stop_audio", "stop_capture",
      "stop_camera_processors", "stop_detectors", "close_detection_queue",
      "join_detected_frames_processor", "join_timeline",
      "stop_output_record_review", "stop_external_dispatcher",
      "join_ptz_autotracker", "join_cleanup_stats_watchdog", "stop_db",
      "save_embeddings_stats", "stop_communicators", "release_shms",
      "stop_log_process">>

\* C4: stop() first raises the stop signal, which is never cleared, and then
\* performs the 17 shutdown steps in the stated order, one after the other.
C4_StopOrder ==
    /\ Len(stop_log) <= Len(ShutdownSteps)
    /\ stop_log = SubSeq(ShutdownSteps, 1, Len(stop_log))
    /\ (stop_log # <<>> => stop_event)
    /\ (pc = "exited" => stop_log = ShutdownSteps)
    /\ (comps["db"] = "stopped" =>
          Joined({"event_cleanup", "record_cleanup", "stats_emitter",
                  "frigate_watchdog"}))
C4_Witness ==
    /\ pc = "exited"
    /\ stop_log = ShutdownSteps
    /\ Cardinality(config.enabled) = 2
    /\ config.audio

\* C5: every channel is torn down only when no process or thread that puts
\* to it, gets from it or calls into it is still running.
ThreadRunning(t) == threads[t] = "running"
C5_ChannelsQuiesced ==
    /\ \A c \in DOMAIN camera_metrics :
          camera_metrics[c].frame_queue = "closed" =>
              ~CaptureAlive(c) /\ ~CameraProcessAlive(c)
    /\ queues["detection_queue"] = "closed" =>
          /\ \A c \in DOMAIN camera_metrics : ~CameraProcessAlive(c)
          /\ ~SomeDetectorAlive
    /\ queues["detected_frames_queue"] = "closed" =>
          /\ \A c \in DOMAIN camera_metrics : ~CameraProcessAlive(c)
          /\ ~ThreadRunning("detected_frames_processor")
    /\ queues["timeline_queue"] = "closed" =>
          /\ ~ThreadRunning("timeline_processor")
          /\ ~ThreadRunning("event_processor")
    /\ comps["dispatcher"] = "stopped" =>
          /\ ~ThreadRunning("ptz_autotracker_thread")
          /\ ~ThreadRunning("detected_frames_processor")
    /\ comps["db"] = "stopped" =>
          \A t \in {"timeline_processor", "event_processor", "event_cleanup",
                    "record_cleanup", "storage_maintainer"} :
              ~ThreadRunning(t)

(***************************************************************************)
(* Properties of check_shm (SpecShm).                                      *)
(***************************************************************************)
\* C6: for every non-negative capacity and camera set, the
\* frames_per_camera that check_shm returns lies in [0, 50].
C6_FramesInRange ==
    (plan.done /\ ~plan.raised) => (plan.frames >= 0 /\ plan.frames <= 50)

\* C7: the frames_per_camera that check_shm returns is
\* min(50, floor(available / total_frame_size)), available being the capacity in MB less 50 (58 with restream) and
\* total_frame_size the sum over the enabled cameras of
\* round((width * height * 1.5 + 270480) / 1048576, 1).
C7_FramesFormula ==
    (plan.done /\ ~plan.raised) =>
        LET available == total_shm(plan.total_bytes)
                           - (IF plan.restream THEN 580 ELSE 500)
            total == cam_total_frame_size(plan.cameras)
        IN /\ total > 0
           /\ plan.frames = (IF available \div total < 50
                             THEN available \div total ELSE 50)

(***************************************************************************)
(* Properties of detect_raw (SpecDetect).                                  *)
(***************************************************************************)
\* index of the first raw row with a negative class id, or Len + 1
FirstNegative(p) ==
    IF \E k \in 1..Len(p) : p[k][7] < 0
    THEN CHOOSE k \in 1..Len(p) :
           p[k][7] < 0 /\ \A j \in 1..(k - 1) : p[j][7] >= 0
    ELSE Len(p) + 1
Populated(p) ==
    IF FirstNegative(p) - 1 < 20 THEN FirstNegative(p) - 1 ELSE 20

\* C8: for a supported model family the result is a 20x6 array whose first
\* k rows are the first k raw rows, remapped to [class_id, confidence,
\* y_min/h, x_min/w, y_max/h, x_max/w], k being the number of raw rows
\* before the first negative class id, at most 20; the other rows are
\* zero, and no row beyond the k-th is ever written.
C8_DetectionsLayout ==
    /\ det.at = "returned" =>
          /\ Len(det.detections) = 20
          /\ det.i = Populated(det.predictions)
          /\ \A r \in 1..20 :
                det.detections[r] =
                    IF r <= Populated(det.predictions)
                    THEN LET raw == det.predictions[r]
                         IN <<Frac(raw[7], 1), Frac(raw[6], 1),
                              Frac(raw[3], det.h), Frac(raw[2], det.w),
                              Frac(raw[5], det.h), Frac(raw[4], det.w)>>
                    ELSE [c \in 1..6 |-> Zero]
    /\ det.at = "loop" =>
          \A r \in 1..20 :
              r > Populated(det.predictions) =>
                  det.detections[r] = [c \in 1..6 |-> Zero]
C8_Witness ==
    /\ det.at = "returned"
    /\ Populated(det.predictions) = 3
    /\ Len(det.predictions) > 5
    /\ det.predictions[4][7] < 0
    /\ det.predictions[5][7] >= 0
    /\ det.detections[3] # [c \in 1..6 |-> Zero]
    /\ det.h # det.w

\* C9: for a model family the backend does not implement, detect_raw fails
\* before the model is invoked and produces no output array.
C9_FailsBeforeInference ==
    det.at = "raised" => det.detections = <<>> /\ det.model_runs = 0

(***************************************************************************)
(* Properties of the segment registry (SpecRegistry).                      *)
(***************************************************************************)
\* C10: acquiring a segment whose name already exists attaches to the
\* existing segment instead of raising, startup continues, and two handles
\* obtained for one name map the same memory.
C10_AcquireIdempotent ==
    pc = After("start_detectors") =>
        /\ error = "none"
        /\ Len(detection_shms) = 2 * Cardinality(config.cameras)
        /\ \A i \in 1..Len(detection_shms) :
              LET shm == detection_shms[i]
                  earlier == {j \in 1..(i - 1) :
                                detection_shms[j].name = shm.name}
              IN /\ shm_fs[shm.name].id = shm.id
                 /\ \A j \in earlier : detection_shms[j].id = shm.id
                 /\ shm.attached =>
                       (earlier = {} => shm.id = StaleId(shm.name))
                 /\ ~shm.attached => (earlier = {} /\ shm.id > 0)
C10_Witness ==
    /\ pc = After("start_detectors")
    /\ \E i, j \in 1..Len(detection_shms) :
          /\ i < j
          /\ detection_shms[i].name = detection_shms[j].name
          /\ detection_shms[j].attached
    /\ \E i \in 1..Len(detection_shms) :
          detection_shms[i].attached /\ detection_shms[i].id < 0

\* C11: every handle acquired in start_detectors, two per configured
\* camera, is in the registry; stop() unlinks each registered segment
\* exactly once and leaves the registry empty: no segment is unlinked
\* twice and none is skipped.
C11_ReleasedExactlyOnce ==
    /\ pc = After("start_detectors") =>
          /\ Len(detection_shms) = 2 * Cardinality(config.cameras)
          /\ \A c \in config.cameras :
                \E i \in 1..Len(detection_shms) :
                    /\ i % 2 = 1
                    /\ detection_shms[i].name = c
                    /\ detection_shms[i + 1].name = OutName(c)
    /\ error # "FileNotFoundError"
    /\ pc \in {After("release_shms"), "crashed"} =>
          /\ detection_shms = <<>>
          /\ \A c \in config.cameras :
                shm_fs[c] = NoSeg /\ shm_fs[OutName(c)] = NoSeg

(***************************************************************************)
(* Properties of detection dispatch (SpecDispatch).                        *)
(***************************************************************************)
\* who is writing to, and who is reading from, the segment called seg
Producers(seg) ==
    {<<"processor", c>> : c \in {x \in CameraNames :
                                   dsp.worker[x] = "writing" /\ x = seg}}
      \cup {<<"detector", d>> : d \in {x \in DetectorNames :
                                   /\ dsp.holder[x].phase = "write"
                                   /\ OutName(dsp.holder[x].job) = seg}}
Consumers(seg) ==
    {<<"processor", c>> : c \in {x \in CameraNames :
                                   /\ dsp.worker[x] = "reading"
                                   /\ OutName(x) = seg}}
      \cup {<<"detector", d>> : d \in {x \in DetectorNames :
                                   /\ dsp.holder[x].phase = "infer"
                                   /\ dsp.holder[x].job = seg}}
\* the detection jobs of camera c that are queued or held by a detector
Outstanding(c) ==
    Cardinality({i \in 1..Len(dsp.queue) : dsp.queue[i] = c})
      + Cardinality({d \in DetectorNames : dsp.holder[d].job = c})

\* C12: for every camera, at most one producer and one consumer touch its
\* input or output segment at any instant; the processing worker has at
\* most one detection job outstanding, and reads the output only after the
\* completion flag is raised.
C12_TurnTaking ==
    \A c \in config.cameras :
        /\ \A seg \in {c, OutName(c)} :
              /\ Cardinality(Producers(seg)) <= 1
              /\ Cardinality(Consumers(seg)) <= 1
        /\ Outstanding(c) <= 1
        /\ (dsp.worker[c] = "reading" => c \in dsp.flag)

\* C13: once the stop signal is raised, stop() eventually completes every
\* step through stopping the logging sink and the supervisor exits, under
\* fair scheduling of the supervisor, of the threads observing the signal
\* and of the watchdog; no join blocks forever.
C13_StopCompletes == stop_event ~> (pc = "exited")

\* the message the report owes for one violated field: its dotted path, a
\* colon and what is wrong with it
FieldMessages ==
    {"mqtt.host: field required", "mqtt.host: str type expected",
     "detectors.det1.type: field required",
     "cameras.cam.ffmpeg.inputs.0.path: field required"}
FieldPath(e) ==
    CASE e.loc[1][2] = "mqtt" -> "mqtt.host"
      [] e.loc[1][2] = "detectors" -> "detectors.det1.type"
      [] OTHER -> "cameras.cam.ffmpeg.inputs.0.path"

\* no queue, store migration, segment, detector, camera or manager process
NothingStarted ==
    /\ \A p \in ProcNames \ {"log_process"} : procs[p] = "none"
    /\ \A t \in ThreadNames : threads[t] = "none"
    /\ \A q \in QueueNames : q # "detection_queue" => queues[q] = "none"
    /\ \A c \in CompNames : comps[c] = "none"
    /\ DOMAIN detectors = {}
    /\ \A c \in DOMAIN camera_metrics :
          /\ camera_metrics[c].process = "none"
          /\ camera_metrics[c].capture_process = "none"
    /\ detection_shms = <<>>
    /\ detection_out_events = {}
    /\ \A n \in SegNames : shm_fs[n] = NoSeg

\* C14: when the configuration fails to load or validate, start() prints
\* one field-qualified message per violated field, terminates the logging
\* sink and exits with status 1, and at no point from the failure on is a
\* queue, store, segment, detector, camera or manager process created.
C14_ConfigFailureReported ==
    outcome.failed_at = "init_config" =>
        /\ NothingStarted
        /\ pc \in {"config_error_exit", "sys_exit", "aborted"}
        /\ pc = "aborted" =>
              /\ outcome.status = "1"
              /\ procs["log_process"] = "exited"
              /\ outcome.printed \subseteq FieldMessages \cup {"traceback"}
              /\ \A e \in outcome.errors :
                    \E line \in outcome.printed :
                        line = FieldPath(e) \o ": " \o e.msg

\* two fields are violated and the supervisor has exited
C14_Witness ==
    /\ pc = "aborted"
    /\ outcome.failed_at = "init_config"
    /\ Cardinality(outcome.errors) >= 2
    /\ Cardinality(outcome.printed) >= 2

\* the startup steps that come before the store is bound
PreBindSteps ==
    {"ensure_dirs", "set_environment_vars", "set_log_levels", "init_queues",
     "init_database", "init_onvif", "init_recording_manager",
     "init_review_segment_manager", "init_embeddings_manager", "init_go2rtc"}
\* the steps at or before which a failure leaves the named thing unmade
NoQueuesYet == {"ensure_dirs", "set_environment_vars", "set_log_levels",
                "init_queues"}
NoOnvifYet == NoQueuesYet \cup {"init_database", "init_onvif"}
NoRecordingYet == NoOnvifYet \cup {"init_recording_manager"}
NoReviewYet == NoRecordingYet \cup {"init_review_segment_manager"}
NoEmbeddingsYet == NoReviewYet \cup {"init_embeddings_manager"}

\* C15: a failure of a startup step before the store is bound ends the
\* whole process with status 1: control never returns to the startup
\* sequence, nothing a later step makes exists, and once the process has
\* exited no process spawned by an earlier step is running.
C15_PreBindFailureAborts ==
    outcome.failed_at \in PreBindSteps =>
        /\ pc \in {"except_exit", "sys_exit", "aborted"}
        /\ \A c \in CompNames \ {"onvif_controller", "embeddings"} :
              comps[c] = "none"
        /\ \A t \in ThreadNames : threads[t] = "none"
        /\ DOMAIN detectors = {} /\ detection_shms = <<>>
        /\ \A c \in DOMAIN camera_metrics :
              /\ camera_metrics[c].process = "none"
              /\ camera_metrics[c].capture_process = "none"
        /\ stop_log = <<>>
        /\ outcome.failed_at \in NoQueuesYet =>
              queues["detected_frames_queue"] = "none"
        /\ outcome.failed_at \in NoOnvifYet =>
              comps["onvif_controller"] = "none"
        /\ outcome.failed_at \in NoRecordingYet =>
              procs["recording_process"] = "none"
        /\ outcome.failed_at \in NoReviewYet =>
              procs["review_segment_process"] = "none"
        /\ outcome.failed_at \in NoEmbeddingsYet =>
              procs["embedding_process"] = "none"
        /\ pc = "aborted" =>
              /\ outcome.status = "1"
              /\ \A p \in ProcNames : procs[p] # "running"

\* the step after the three managers failed, and the managers are gone
C15_Witness ==
    /\ pc = "aborted"
    /\ outcome.failed_at = "init_go2rtc"
    /\ procs["recording_process"] = "exited"
    /\ procs["review_segment_process"] = "exited"
    /\ procs["embedding_process"] = "exited"

\* C16: after stop() no event and no review segment is left without an end
\* time, including the records that workers still running when the
\* finalize step executed have opened.
C16_NoOpenRecordAfterStop == pc = "exited" => open_records = {}

\* the largest input of the configured detectors, height * width * 3 bytes
LargestInput(cfg) ==
    IF cfg.ndetectors = 1 THEN 320 * 320 * 3
    ELSE IF cfg.ndetectors = 2 THEN 640 * 480 * 3
    ELSE 640 * 480 * 3

\* C17: after start_detectors every configured camera's input segment has
\* the size of the largest detector input and its output segment has 480
\* bytes, whether the segment was created or an existing one was attached.
C17_SegmentSizes ==
    pc = After("start_detectors") =>
        \A c \in config.cameras :
            /\ shm_fs[c].size = LargestInput(config)
            /\ shm_fs[OutName(c)].size = 480

\* stop() has been entered and has not ended
Stopping == stop_event /\ SupervisorAlive
\* some worker thread has yet to observe the stop signal
SomeThreadPending == \E t \in ThreadNames : threads[t] = "running"

\* C18: a worker that never observes the stop signal does not prevent
\* stop() from proceeding: whenever stop() cannot take its next step, a
\* thread that is still to observe the signal remains.
C18_StopProceeds ==
    Stopping => (ENABLED StopNext) \/ SomeThreadPending

\* the part of the startup order the claim states
StatedOrder ==
    <<"start_detectors", "start_video_output_processor",
      "start_ptz_autotracker", "init_historical_regions",
      "start_detected_frames_processor", "start_camera_processors",
      "check_shm", "start_camera_capture_processes">>

\* every camera has its two segments and its completion flag, and every
\* configured detector has a worker
DetectionPlaneUp ==
    /\ \A c \in config.cameras :
          /\ shm_fs[c] # NoSeg
          /\ shm_fs[OutName(c)] # NoSeg
          /\ c \in detection_out_events
    /\ DOMAIN detectors = ConfigDetectors(config)
RegionGridsLoaded ==
    \A c \in config.cameras : Item("region_grids", c) \in assigned

\* a step of start() that starts a worker of the given kind
StartsProcessor ==
    \E c \in DOMAIN camera_metrics :
        camera_metrics[c].process = "none"
          /\ camera_metrics'[c].process = "running"
StartsCapture ==
    \E c \in DOMAIN camera_metrics :
        camera_metrics[c].capture_process = "none"
          /\ camera_metrics'[c].capture_process = "running"
StartsWatchdog ==
    threads["frigate_watchdog"] = "none"
      /\ threads'["frigate_watchdog"] = "running"

\* C19: start() takes the steps in the stated order; when it starts a
\* camera processing worker every segment, completion flag and detector
\* worker exists and the region grids are loaded; when it starts a capture
\* worker check_shm has completed; when it starts the watchdog every
\* detector worker exists.
C19_StartupOrder ==
    [][ /\ \A i \in 1..(Len(StatedOrder) - 1) :
              (pc = StatedOrder[i] /\ pc' # pc) =>
                  pc' \in {StatedOrder[i + 1], "crashed"}
        /\ StartsProcessor => DetectionPlaneUp /\ RegionGridsLoaded
        /\ StartsCapture => "shm_frame_count" \in assigned
        /\ StartsWatchdog => DOMAIN detectors = ConfigDetectors(config)
      ]_vars

\* every kind of worker of the claim has been started
C19_Witness ==
    /\ config.enabled # {}
    /\ config.enabled \subseteq DOMAIN camera_metrics
    /\ \A c \in config.enabled :
          /\ camera_metrics[c].process = "running"
          /\ camera_metrics[c].capture_process = "running"
    /\ threads["frigate_watchdog"] = "running"
    /\ DetectionPlaneUp /\ RegionGridsLoaded

\* the steps of start() and stop()
ProgramSteps == {Program[i] : i \in 1..Len(Program)}

\* C20: whenever a step of start() or stop() is about to run, every
\* attribute and dict entry of the supervisor it reads has been assigned by
\* the constructor or by a step that ran before it, whatever cameras are
\* enabled and whether semantic search and audio are on or off.
C20_ReadsAssigned ==
    pc \in ProgramSteps => Reads(pc, config) \subseteq assigned

\* stop() reads self.embeddings with semantic search off, audio off and a
\* camera disabled
C20_Witness ==
    /\ pc = "save_embeddings_stats"
    /\ ~config.semantic_search
    /\ ~config.audio
    /\ config.enabled # config.cameras
    /\ "embeddings" \in Reads(pc, config)
    /\ "embeddings" \in assigned

\* stop() has stopped every detector worker (the loop of step 5 is over)
DetectorsStopped ==
    /\ "stop_detectors" \in {stop_log[i] : i \in 1..Len(stop_log)}
    /\ pc # "stop_detectors"

\* C21: once stop() has stopped the detector workers the watchdog starts
\* none again: no detector process is alive from then on, in particular
\* not when the detection queue is closed or a segment is unlinked.
C21_NoRestartAfterStop == DetectorsStopped => ~SomeDetectorAlive

\* a step of the watchdog's pass over the detectors
WatchdogStep == wd_pc' # wd_pc
\* what the watchdog may do to detector d: nothing, terminate it when it is
\* unresponsive, or start the worker it has just terminated
WatchdogMayChange(d) ==
    \/ detectors'[d] = detectors[d]
    \/ detectors[d] = "stuck" /\ detectors'[d] = "exited"
    \/ /\ detectors[d] = "exited" /\ detectors'[d] = "running"
       /\ wd_pc.at = "restart"
       /\ d = DetSeq(config)[wd_pc.i]

JobInFlight(c) ==
    \/ \E i \in 1..Len(dsp.queue) : dsp.queue[i] = c
    \/ \E d \in DetectorNames : dsp.holder[d].job = c

\* C23: no detection job is lost: while a camera processing worker waits
\* for its job, the job is queued or held by a detector worker that will
\* write its result, or the completion flag is already raised; this also
\* after the watchdog has restarted the detector worker that dequeued it.
C23_NoJobLost ==
    \A c \in CameraNames :
        (~stop_event /\ dsp.worker[c] = "waiting") =>
            (c \in dsp.flag \/ JobInFlight(c))

\* C24: once stop() has started, the supervisor ends only by completing
\* it: every step has run once, every segment is unlinked and every thread
\* that stop() joins has exited, whatever signals arrive meanwhile.
C24_StopRunsToCompletion ==
    (stop_event /\ ~SupervisorAlive) =>
        /\ pc = "exited"
        /\ stop_log = ShutdownSteps
        /\ \A n \in SegNames : shm_fs[n] = NoSeg
        /\ \A t \in ThreadNames \ {"storage_maintainer"} :
              threads[t] = "exited"

\* some worker process or thread of the supervisor is running
SomeWorkerRunning ==
    \/ \E p \in ProcNames \ {"log_process"} : Alive(procs[p])
    \/ \E c \in DOMAIN camera_metrics :
          CameraProcessAlive(c) \/ CaptureAlive(c)
    \/ SomeDetectorAlive
    \/ \E t \in ThreadNames : threads[t] = "running"

\* C25: when a startup step after start_detectors raises, the segments
\* already created are unlinked and the workers already spawned are
\* stopped: start() ends with no segment in the namespace, an empty
\* registry and no worker running.
C25_NoLeakOnStartupFailure ==
    (pc = "crashed" /\ outcome.failed_at \in AfterDetectors) =>
        /\ detection_shms = <<>>
        /\ \A n \in SegNames : shm_fs[n] = NoSeg
        /\ ~SomeWorkerRunning

\* C26: the segments of distinct (camera, role) pairs are distinct: after
\* start_detectors no two entries of the registry are handles of one
\* segment, by name or by identity; and no unlink in stop() meets a name
\* that is already unlinked.
C26_DistinctSegments ==
    /\ pc = After("start_detectors") =>
          \A i, j \in 1..Len(detection_shms) :
              i # j =>
                  /\ detection_shms[i].name # detection_shms[j].name
                  /\ detection_shms[i].id # detection_shms[j].id
    /\ pc = "crashed" => error # "FileNotFoundError"

\* C27: check_shm never aborts startup: for every configuration, one with no
\* enabled camera included, it yields a frames-per-camera value, and a value
\* below ten costs a warning and nothing more.
C27_CheckShmNeverAborts ==
    plan.done =>
        /\ ~plan.raised
        /\ plan.warned <=> (plan.frames < WarnBelow)

\* a stored number lies in [0, 1]
InUnit(f) == f[1] >= 0 /\ f[1] <= f[2]

\* C28: every coordinate detect_raw writes into a populated row (columns
\* y_min, x_min, y_max, x_max) lies in [0, 1].
C28_CoordinatesInUnit ==
    det.at \in {"loop", "returned"} =>
        \A r \in 1..det.i : \A c \in 3..Columns : InUnit(det.detections[r][c])

\* C29: every frame queue created in init_config is drained and closed by
\* stop(): once the supervisor has exited, the cameras whose frame queue is
\* closed are the cameras for which a frame queue was created.
C29_FrameQueuesClosed ==
    pc = "exited" =>
        { c \in DOMAIN camera_metrics :
            camera_metrics[c].frame_queue = "closed" } = config.cameras

=============================================================================
